---------------------------- MODULE Spec2Model ----------------------------
(***************************************************************************)
(* Model of the WhatsApp webhook server (src/server.js): the POST /webhook *)
(* handler with its in-memory de-dup cache, the echo filter, the lead      *)
(* upsert against the spreadsheet row store, and the periodic sweep.       *)
(*                                                                         *)
(* JavaScript strings are sequences of UTF-16 code units.  A JavaScript    *)
(* value is a record [t, s, n, b]: t is the type tag, s the string (or the *)
(* JSON text of an object), n the number, b the boolean.                   *)
(***************************************************************************)
EXTENDS Integers, Sequences, FiniteSets, TLC

----------------------------------------------------------------------------
(* Bounds of the model *)

\* number of POST /webhook requests that arrive
NReq == 2
\* number of clock ticks (each TickMs long)
MaxTicks == 2

----------------------------------------------------------------------------
(* Program constants *)

SEEN_TTL_MS == 120000
SWEEP_INTERVAL_MS == 30000
LEAD_MSG_MAX == 500
LOG_MSG_MAX == 2000
DEDUP_KEY_MAX == 500

\* the clock is read in steps of one retention window
TickMs == SEEN_TTL_MS

----------------------------------------------------------------------------
(* String literals of the source, as UTF-16 code units *)

S_empty == << >>
S_bar == <<124>>
S_lbracket == <<91>>
S_rbracket == <<93>>
S_text == <<116, 101, 120, 116>>
S_outgoing == <<111, 117, 116, 103, 111, 105, 110, 103>>
S_textMessage == <<116, 101, 120, 116, 77, 101, 115, 115, 97, 103, 101>>
S_unknown == <<117, 110, 107, 110, 111, 119, 110>>
S_new == <<110, 101, 119>>
S_incoming == <<105, 110, 99, 111, 109, 105, 110, 103>>
S_true == <<116, 114, 117, 101>>
S_false == <<102, 97, 108, 115, 101>>
S_undefined == <<117, 110, 100, 101, 102, 105, 110, 101, 100>>
S_objectObject == <<91, 111, 98, 106, 101, 99, 116, 32, 79, 98, 106, 101, 99, 116, 93>>
\* "קיבלתי ✅"
REPLY_PREFIX == <<1511, 1497, 1489, 1500, 1514, 1497, 32, 9989>>
\* "\nכתבת: \""
REPLY_MID == <<10, 1499, 1514, 1489, 1514, 58, 32, 34>>
\* "\"\n\nאיך אפשר לעזור?"
REPLY_TAIL == <<34, 10, 10, 1488, 1497, 1498, 32, 1488, 1508, 1513, 1512, 32,
                1500, 1506, 1494, 1493, 1512, 63>>

----------------------------------------------------------------------------
(* JavaScript values *)

Undef == [t |-> "undef", s |-> << >>, n |-> 0, b |-> FALSE]
Str(x) == [t |-> "str", s |-> x, n |-> 0, b |-> FALSE]
Num(x) == [t |-> "num", s |-> << >>, n |-> x, b |-> FALSE]
Bool(x) == [t |-> "bool", s |-> << >>, n |-> 0, b |-> x]
\* an object, carried with its JSON text
Obj(json) == [t |-> "obj", s |-> json, n |-> 0, b |-> FALSE]

\* JavaScript truthiness
Truthy(v) ==
    CASE v.t = "undef" -> FALSE
      [] v.t = "str" -> v.s # << >>
      [] v.t = "num" -> v.n # 0
      [] v.t = "bool" -> v.b
      [] v.t = "obj" -> TRUE

\* a || b
Or(a, b) == IF Truthy(a) THEN a ELSE b

RECURSIVE Digits(_)
\* decimal digits of a natural number
Digits(n) == IF n < 10 THEN <<48 + n>> ELSE Digits(n \div 10) \o <<48 + (n % 10)>>

\* String(v), also the conversion of `${v}`
JsString(v) ==
    CASE v.t = "undef" -> S_undefined
      [] v.t = "str" -> v.s
      [] v.t = "num" -> Digits(v.n)
      [] v.t = "bool" -> (IF v.b THEN S_true ELSE S_false)
      [] v.t = "obj" -> S_objectObject

\* JSON.stringify(v) for a value that is not undefined
JSONstringify(v) ==
    CASE v.t = "str" -> <<34>> \o v.s \o <<34>>
      [] v.t = "num" -> Digits(v.n)
      [] v.t = "bool" -> (IF v.b THEN S_true ELSE S_false)
      [] v.t = "obj" -> v.s
      [] OTHER -> S_undefined

\* s.slice(0, max)
Slice0(s, max) == IF Len(s) > max THEN SubSeq(s, 1, max) ELSE s

\* s.startsWith(p)
StartsWith(s, p) == Len(s) >= Len(p) /\ SubSeq(s, 1, Len(p)) = p

\* s.includes(p)
Includes(s, p) ==
    \E i \in 1..(Len(s) - Len(p) + 1) : SubSeq(s, i, i + Len(p) - 1) = p

\* s.toLowerCase() (the letters of the model's payloads that have case are A-Z)
ToLowerCase(s) == [i \in 1..Len(s) |-> IF s[i] >= 65 /\ s[i] <= 90 THEN s[i] + 32 ELSE s[i]]

\* s.split("@")[0]
SplitAt0(s) ==
    IF \E i \in 1..Len(s) : s[i] = 64
    THEN LET i == CHOOSE j \in 1..Len(s) : s[j] = 64 /\ \A k \in 1..(j - 1) : s[k] # 64
         IN SubSeq(s, 1, i - 1)
    ELSE s

----------------------------------------------------------------------------
(* Helpers of src/server.js *)

safeStr(v, max) ==
    IF v.t = "undef" THEN S_empty
    ELSE LET s == IF v.t = "str" THEN v.s ELSE JSONstringify(v)
         IN Slice0(s, max)

extractChatId(payload) ==
    Or(payload.chatId,
       Or(payload.sd_chatId,
          Or(payload.md_chatId,
             Or(payload.sd_sender, Str(S_empty)))))

extractPhoneFromChatId(chatId) ==
    IF ~Truthy(chatId) THEN S_empty ELSE SplitAt0(JsString(chatId))

extractMsgType(payload) ==
    Or(payload.typeMessage,
       Or(payload.md_typeMessage,
          IF Truthy(payload.md_textMessageData) THEN Str(S_textMessage) ELSE Str(S_unknown)))

\* extractText with its first two sources in the other order
extractTextAlternateFirst(payload) ==
    Or(payload.textMessage,
       Or(payload.message,
          Or(payload.md_tmd_textMessage,
             Or(payload.md_etmd_text,
                Or(payload.md_quoted_textMessage, Str(S_empty))))))

extractText(payload) ==
    Or(payload.message,
       Or(payload.textMessage,
          Or(payload.md_tmd_textMessage,
             Or(payload.md_etmd_text,
                Or(payload.md_quoted_textMessage, Str(S_empty))))))

----------------------------------------------------------------------------
(* The request body.  The nested object is kept flat: sd_ is senderData,   *)
(* md_ is messageData, md_tmd_ is messageData.textMessageData, md_etmd_ is *)
(* messageData.extendedTextMessageData, md_quoted_ is                      *)
(* messageData.quotedMessage.  A missing property is Undef.                *)

PayloadFields ==
    {"chatId", "sd_chatId", "md_chatId", "sd_sender",
     "typeMessage", "md_typeMessage", "md_textMessageData",
     "message", "textMessage", "md_tmd_textMessage", "md_etmd_text",
     "md_quoted_textMessage",
     "idMessage", "md_idMessage", "md_etmd_stanzaId",
     "typeWebhook", "eventType",
     "fromMe", "sd_fromMe", "md_fromMe"}

\* req.body || {}
EmptyPayload == [f \in PayloadFields |-> Undef]

\* property names, for JSON.stringify(payload)
K_chatId == <<99, 104, 97, 116, 73, 100>>
K_senderData == <<115, 101, 110, 100, 101, 114, 68, 97, 116, 97>>
K_sender == <<115, 101, 110, 100, 101, 114>>
K_fromMe == <<102, 114, 111, 109, 77, 101>>
K_messageData == <<109, 101, 115, 115, 97, 103, 101, 68, 97, 116, 97>>
K_typeMessage == <<116, 121, 112, 101, 77, 101, 115, 115, 97, 103, 101>>
K_idMessage == <<105, 100, 77, 101, 115, 115, 97, 103, 101>>
K_textMessageData == <<116, 101, 120, 116, 77, 101, 115, 115, 97, 103, 101, 68, 97, 116, 97>>
K_textMessage == <<116, 101, 120, 116, 77, 101, 115, 115, 97, 103, 101>>
K_extendedTextMessageData == <<101, 120, 116, 101, 110, 100, 101, 100, 84, 101, 120, 116, 77, 101, 115, 115, 97, 103, 101, 68, 97, 116, 97>>
K_text == <<116, 101, 120, 116>>
K_contextInfo == <<99, 111, 110, 116, 101, 120, 116, 73, 110, 102, 111>>
K_stanzaId == <<115, 116, 97, 110, 122, 97, 73, 100>>
K_quotedMessage == <<113, 117, 111, 116, 101, 100, 77, 101, 115, 115, 97, 103, 101>>
K_message == <<109, 101, 115, 115, 97, 103, 101>>
K_typeWebhook == <<116, 121, 112, 101, 87, 101, 98, 104, 111, 111, 107>>
K_eventType == <<101, 118, 101, 110, 116, 84, 121, 112, 101>>

\* one "key":value member, or nothing when the property is missing
Member(key, v) ==
    IF v.t = "undef" THEN << >> ELSE << <<34>> \o key \o <<34, 58>> \o JSONstringify(v) >>

\* a nested object as a value: Undef when it has no member
Block(members) == IF members = << >> THEN Undef ELSE Obj(<<123>> \o members \o <<125>>)

RECURSIVE JoinComma(_)
JoinComma(ms) ==
    IF ms = << >> THEN << >>
    ELSE IF Len(ms) = 1 THEN ms[1]
    ELSE ms[1] \o <<44>> \o JoinComma(Tail(ms))

\* JSON.stringify(payload), the properties in the order written below
PayloadJson(p) ==
    LET sd == Block(JoinComma(Member(K_chatId, p.sd_chatId) \o Member(K_sender, p.sd_sender)
                              \o Member(K_fromMe, p.sd_fromMe)))
        tmd == IF p.md_tmd_textMessage.t = "undef"
               THEN (IF Truthy(p.md_textMessageData) THEN Obj(<<123, 125>>) ELSE Undef)
               ELSE Block(JoinComma(Member(K_textMessage, p.md_tmd_textMessage)))
        ctx == Block(JoinComma(Member(K_stanzaId, p.md_etmd_stanzaId)))
        etmd == Block(JoinComma(Member(K_text, p.md_etmd_text) \o Member(K_contextInfo, ctx)))
        quoted == Block(JoinComma(Member(K_textMessage, p.md_quoted_textMessage)))
        md == Block(JoinComma(Member(K_chatId, p.md_chatId)
                              \o Member(K_typeMessage, p.md_typeMessage)
                              \o Member(K_idMessage, p.md_idMessage)
                              \o Member(K_fromMe, p.md_fromMe)
                              \o Member(K_textMessageData, tmd)
                              \o Member(K_extendedTextMessageData, etmd)
                              \o Member(K_quotedMessage, quoted)))
    IN <<123>> \o JoinComma(Member(K_typeWebhook, p.typeWebhook)
                            \o Member(K_eventType, p.eventType)
                            \o Member(K_chatId, p.chatId)
                            \o Member(K_idMessage, p.idMessage)
                            \o Member(K_typeMessage, p.typeMessage)
                            \o Member(K_message, p.message)
                            \o Member(K_textMessage, p.textMessage)
                            \o Member(K_fromMe, p.fromMe)
                            \o Member(K_senderData, sd)
                            \o Member(K_messageData, md)) \o <<125>>

----------------------------------------------------------------------------
(* Echo filter and fingerprint *)

\* isFromMe without the test of the reply prefix
isFromMeNoPrefix(payload) ==
    LET typeWebhook == Or(payload.typeWebhook, Or(payload.eventType, Str(S_empty)))
    IN IF payload.fromMe = Bool(TRUE) THEN "true"
       ELSE IF payload.sd_fromMe = Bool(TRUE) THEN "true"
       ELSE IF payload.md_fromMe = Bool(TRUE) THEN "true"
       ELSE IF Includes(ToLowerCase(JsString(typeWebhook)), S_outgoing) THEN "true"
       ELSE "false"

\* isFromMe with the message type as a further source of the tag
isFromMeMsgTypeTag(payload) ==
    LET text == extractText(payload)
        typeWebhook == Or(payload.typeWebhook,
                          Or(payload.eventType,
                             Or(payload.typeMessage,
                                Or(payload.md_typeMessage, Str(S_empty)))))
    IN IF payload.fromMe = Bool(TRUE) THEN "true"
       ELSE IF payload.sd_fromMe = Bool(TRUE) THEN "true"
       ELSE IF payload.md_fromMe = Bool(TRUE) THEN "true"
       ELSE IF Truthy(text) /\ text.t # "str" THEN "throw"
       ELSE IF Truthy(text) /\ StartsWith(text.s, REPLY_PREFIX) THEN "true"
       ELSE IF Includes(ToLowerCase(JsString(typeWebhook)), S_outgoing) THEN "true"
       ELSE "false"

\* isFromMe(payload): "true", "false", or "throw" when text.startsWith is
\* called on a text that is not a string (TypeError)
isFromMe(payload) ==
    LET text == extractText(payload)
        typeWebhook == Or(payload.typeWebhook, Or(payload.eventType, Str(S_empty)))
    IN IF payload.fromMe = Bool(TRUE) THEN "true"
       ELSE IF payload.sd_fromMe = Bool(TRUE) THEN "true"
       ELSE IF payload.md_fromMe = Bool(TRUE) THEN "true"
       ELSE IF Truthy(text) /\ text.t # "str" THEN "throw"
       ELSE IF Truthy(text) /\ StartsWith(text.s, REPLY_PREFIX) THEN "true"
       ELSE IF Includes(ToLowerCase(JsString(typeWebhook)), S_outgoing) THEN "true"
       ELSE "false"

makeDedupKey(payload) ==
    LET chatId == extractChatId(payload)
        msgId == Or(payload.idMessage,
                    Or(payload.md_idMessage,
                       Or(payload.md_etmd_stanzaId, Str(S_empty))))
        text == extractText(payload)
        type == Or(payload.typeWebhook,
                   Or(payload.eventType,
                      Or(payload.typeMessage,
                         Or(payload.md_typeMessage, Str(S_empty)))))
    IN Slice0(JsString(chatId) \o S_bar \o JsString(msgId) \o S_bar
              \o JsString(type) \o S_bar \o JsString(text), DEDUP_KEY_MAX)

----------------------------------------------------------------------------
(* Request bodies and sheet contents the model draws from *)

S_incomingMessageReceived == <<105, 110, 99, 111, 109, 105, 110, 103, 77, 101, 115, 115, 97, 103, 101, 82, 101, 99, 101, 105, 118, 101, 100>>
S_imageMessage == <<105, 109, 97, 103, 101, 77, 101, 115, 115, 97, 103, 101>>
S_TextMessage == <<84, 101, 120, 116, 77, 101, 115, 115, 97, 103, 101>>
S_chat1 == <<49, 49, 49, 64, 99, 46, 117, 115>>
S_chat2 == <<50, 50, 50, 64, 99, 46, 117, 115>>
S_hi == <<104, 105>>
S_yo == <<121, 111>>
S_idA == <<65, 49>>
S_idB == <<66, 50>>
S_Dana == <<68, 97, 110, 97>>
S_won == <<119, 111, 110>>
S_phone == <<112, 104, 111, 110, 101>>
S_name == <<110, 97, 109, 101>>
S_status == <<115, 116, 97, 116, 117, 115>>
S_created_at == <<99, 114, 101, 97, 116, 101, 100, 95, 97, 116>>
S_updated_at == <<117, 112, 100, 97, 116, 101, 100, 95, 97, 116>>
S_last_message == <<108, 97, 115, 116, 95, 109, 101, 115, 115, 97, 103, 101>>
S_111 == <<49, 49, 49>>
\* a text longer than LEAD_MSG_MAX
S_long == [i \in 1..(LEAD_MSG_MAX + 1) |-> 97]

\* a text message from 111@c.us
pText ==
    [EmptyPayload EXCEPT !.typeWebhook = Str(S_incomingMessageReceived),
                         !.chatId = Str(S_chat1), !.idMessage = Str(S_idA),
                         !.typeMessage = Str(S_textMessage), !.message = Str(S_hi)]
\* another message of the same chat, in the nested shape
pNested ==
    [EmptyPayload EXCEPT !.sd_chatId = Str(S_chat1), !.md_idMessage = Str(S_idB),
                         !.md_textMessageData = Obj(<<123, 125>>),
                         !.md_tmd_textMessage = Str(S_yo)]
\* an image with a caption longer than LEAD_MSG_MAX
pImage ==
    [EmptyPayload EXCEPT !.chatId = Str(S_chat2), !.idMessage = Str(S_idA),
                         !.typeMessage = Str(S_imageMessage), !.message = Str(S_long)]
\* a text-type event without text
pNoText ==
    [EmptyPayload EXCEPT !.chatId = Str(S_chat1), !.idMessage = Str(S_idB),
                         !.typeMessage = Str(S_TextMessage)]
\* the bot's own reply coming back
pEcho ==
    [EmptyPayload EXCEPT !.chatId = Str(S_chat1), !.idMessage = Str(S_idA),
                         !.typeMessage = Str(S_textMessage),
                         !.message = Str(REPLY_PREFIX \o REPLY_MID \o S_hi \o REPLY_TAIL)]
\* a text that is a JSON number
pNumber ==
    [EmptyPayload EXCEPT !.chatId = Str(S_chat1), !.typeMessage = Str(S_textMessage),
                         !.message = Num(7)]
\* a text message without any chat id
pNoChat ==
    [EmptyPayload EXCEPT !.typeMessage = Str(S_textMessage), !.textMessage = Str(S_hi)]
Payloads == {pText, pNested, pImage, pNoText, pEcho, pNumber, pNoChat}

\* the header row of the leads sheet
LeadsHeader ==
    <<Str(S_phone), Str(S_name), Str(S_status), Str(S_created_at), Str(S_updated_at),
      Str(S_last_message)>>
\* a lead that was created earlier and edited by hand
OldLead == <<Str(S_111), Str(S_Dana), Str(S_won), Str(<<48>>), Str(<<48>>), Str(S_yo)>>

InitLeads == {<<LeadsHeader>>, <<LeadsHeader, OldLead>>}

Requests == 1..NReq

----------------------------------------------------------------------------
(* State *)

VARIABLES
    now,        \* Date.now(), in ms
    lastSweep,  \* when cleanupSeen last ran, 0 before its first run
    seen,       \* the de-dup cache: key -> timestamp
    logs,       \* rows appended to conversation_logs!A:J
    leads,      \* the rows of leads!A:F, header first
    sent,       \* messages accepted by the send API
    pc,         \* per request: the await the handler is suspended at
    req,        \* per request: req.body
    ts,         \* per request: the clock when the handler ran its first block (then ts)
    existing,   \* per request: rowIndex of findLeadByPhone's match, 0 for null
    leadTs,     \* per request: ts of upsertLead
    trace,      \* per request: the steps the handler has taken, in order
    evicted     \* per key: how often cleanupSeen has deleted it

vars == <<now, lastSweep, seen, logs, leads, sent, pc, req, ts, existing, leadTs,
          trace, evicted>>

\* a Map without entries
EmptyMap == [k \in {} |-> 0]

\* new Date().toISOString(): the instant, written by its epoch milliseconds
nowIso(t) == Str(Digits(t))

Init ==
    /\ now = 0
    /\ lastSweep = 0
    /\ seen = EmptyMap
    /\ logs = << >>
    /\ leads \in InitLeads
    /\ sent = << >>
    /\ pc = [r \in Requests |-> "idle"]
    /\ req = [r \in Requests |-> EmptyPayload]
    /\ ts = [r \in Requests |-> 0]
    /\ existing = [r \in Requests |-> 0]
    /\ leadTs = [r \in Requests |-> 0]
    /\ trace = [r \in Requests |-> << >>]
    /\ evicted = EmptyMap

----------------------------------------------------------------------------
(* The de-dup cache *)

\* a lookup that ignores a key older than the window
SeenHasUnexpired(map, key) == key \in DOMAIN map /\ now - map[key] <= SEEN_TTL_MS

\* seen.has(key)
SeenHas(map, key) == key \in DOMAIN map

\* seen.set left out
SeenSetLost(map, key, t) == map

\* seen.set(key, t)
SeenSet(map, key, t) ==
    [k \in DOMAIN map \cup {key} |-> IF k = key THEN t ELSE map[k]]

\* a duplicate that refreshes the timestamp of its key
SeenRefreshed(map, key, t) == [k \in DOMAIN map |-> IF k = key THEN t ELSE map[k]]

\* the cache after the return of a duplicate: nothing is written
SeenOnDuplicate(map, key, t) == map

\* an expiry test that also deletes a key of exactly the window's age
ExpiredInclusive(map, t) == {k \in DOMAIN map : t - map[k] >= SEEN_TTL_MS}

\* the keys cleanupSeen deletes at time t
Expired(map, t) == {k \in DOMAIN map : t - map[k] > SEEN_TTL_MS}

\* a cleanupSeen that deletes nothing
cleanupSeenKeepsAll(map, t) == map

\* the cache after cleanupSeen has run at time t
cleanupSeenMap(map, t) == [k \in DOMAIN map \ Expired(map, t) |-> map[k]]

----------------------------------------------------------------------------
(* The row store *)

\* values.update of the last row in place of values.append
appendRowOverwrites(rows, valuesRow) ==
    IF rows = << >> THEN <<valuesRow>> ELSE [rows EXCEPT ![Len(rows)] = valuesRow]

\* appendRow: values.append with INSERT_ROWS
appendRow(rows, valuesRow) == Append(rows, valuesRow)

\* a scan that returns the last match
findLeadByPhoneLast(rows, phone) ==
    LET hits == {i \in 2..Len(rows) : JsString(Or(rows[i][1], Str(S_empty))) = phone}
    IN IF hits = {} THEN 0 ELSE CHOOSE i \in hits : \A j \in hits : i >= j

\* findLeadByPhone: the 1-based sheet row of the first match after the
\* header, 0 for null
findLeadByPhone(rows, phone) ==
    LET hits == {i \in 2..Len(rows) : JsString(Or(rows[i][1], Str(S_empty))) = phone}
    IN IF hits = {} THEN 0 ELSE CHOOSE i \in hits : \A j \in hits : i <= j

\* newRow with lastMessage not truncated
NewLeadRowUntruncated(phone, t, lastMessage) ==
    <<Str(phone), Str(S_empty), Str(S_new), t, t, Str(JsString(lastMessage))>>

\* newRow of upsertLead
NewLeadRow(phone, t, lastMessage) ==
    <<Str(phone), Str(S_empty), Str(S_new), t, t, Str(safeStr(lastMessage, LEAD_MSG_MAX))>>

\* values.update that rewrites the whole row A:F
UpdateLeadRowWhole(rows, rowIndex, t, lastMessage) ==
    [rows EXCEPT ![rowIndex] =
        <<@[1], Str(S_empty), Str(S_new), t, t, Str(safeStr(lastMessage, LEAD_MSG_MAX))>>]

\* values.update on leads!E{rowIndex}:F{rowIndex}
UpdateLeadRow(rows, rowIndex, t, lastMessage) ==
    [rows EXCEPT ![rowIndex] =
        [@ EXCEPT ![5] = t, ![6] = Str(safeStr(lastMessage, LEAD_MSG_MAX))]]

----------------------------------------------------------------------------
(* The handler's locals *)

Phone(payload) == extractPhoneFromChatId(extractChatId(payload))

\* lastMessage: text || `[${msgType}]`
LastMessage(payload) ==
    Or(extractText(payload),
       Str(S_lbracket \o JsString(extractMsgType(payload)) \o S_rbracket))

\* the row of the incoming message
IncomingRow(payload, t) ==
    <<t, Str(Phone(payload)), extractChatId(payload), Str(S_incoming),
      extractMsgType(payload),
      Str(safeStr(Or(extractText(payload), Obj(PayloadJson(payload))), LOG_MSG_MAX)),
      Str(S_empty), Str(S_empty), Str(S_empty), Str(S_empty)>>

\* the reply condition without the type test
ShouldReplyAnyType(payload) ==
    /\ Truthy(extractChatId(payload))
    /\ Truthy(extractText(payload))

\* chatId && isText && text
ShouldReply(payload) ==
    /\ Truthy(extractChatId(payload))
    /\ Includes(ToLowerCase(JsString(extractMsgType(payload))), S_text)
    /\ Truthy(extractText(payload))

\* the reply text
Reply(payload) == REPLY_PREFIX \o REPLY_MID \o JsString(extractText(payload)) \o REPLY_TAIL

\* the outgoing row an earlier version of the handler wrote after the send
logOutgoingWritten(rows, payload, t) ==
    Append(rows,
           <<t, Str(extractPhoneFromChatId(extractChatId(payload))), extractChatId(payload),
             Str(S_outgoing), Str(S_text),
             Str(safeStr(Str(REPLY_PREFIX \o REPLY_MID \o JsString(extractText(payload))
                             \o REPLY_TAIL), LOG_MSG_MAX)),
             Str(S_empty), Str(S_empty), Str(S_empty), Str(S_empty)>>)

\* the conversation log after a successful send: the handler writes no
\* outgoing row
logOutgoing(rows, payload, t) == rows

\* the acknowledgment left out
sendStatusSkipped(steps) == steps

\* res.sendStatus(200), as a step of the handler
sendStatus(steps) == Append(steps, "ack")

\* where the handler goes after the lead step: the reply or the end
AfterLead(payload) == IF ShouldReply(payload) THEN "send" ELSE "done"

\* the lead step taken without the test of the phone
AfterLogAlways(payload) == "find"

\* where the handler goes after the incoming row is written
AfterLog(payload) == IF Phone(payload) # S_empty THEN "find" ELSE AfterLead(payload)

----------------------------------------------------------------------------
(* Actions *)

\* POST /webhook arrives: the handler runs to its first await
Receive(r, p) ==
    /\ pc[r] = "idle"
    /\ \A q \in Requests : q < r => pc[q] # "idle"
    /\ req' = [req EXCEPT ![r] = p]
    /\ ts' = [ts EXCEPT ![r] = now]
    /\ LET key == makeDedupKey(p)
           acked == sendStatus(trace[r])
       IN IF SeenHas(seen, key)
          THEN /\ pc' = [pc EXCEPT ![r] = "done"]
               /\ trace' = [trace EXCEPT ![r] = Append(acked, "duplicate")]
               /\ seen' = SeenOnDuplicate(seen, key, now)
          ELSE /\ seen' = SeenSet(seen, key, now)
               /\ CASE isFromMe(p) = "throw" ->
                         /\ pc' = [pc EXCEPT ![r] = "escaped"]
                         /\ trace' = [trace EXCEPT ![r] = acked \o <<"dedup", "throw">>]
                    [] isFromMe(p) = "true" ->
                         /\ pc' = [pc EXCEPT ![r] = "done"]
                         /\ trace' = [trace EXCEPT ![r] = acked \o <<"dedup", "echo">>]
                    [] OTHER ->
                         /\ pc' = [pc EXCEPT ![r] = "log"]
                         /\ trace' = [trace EXCEPT ![r] = Append(acked, "dedup")]
    /\ UNCHANGED <<now, lastSweep, logs, leads, sent, existing, leadTs, evicted>>

\* a catch that calls the failed step once more
CaughtRetries(r, at) ==
    /\ pc[r] = at
    /\ \A i \in 1..Len(trace[r]) : trace[r][i] # "caught"
    /\ trace' = [trace EXCEPT ![r] = Append(@, "caught")]
    /\ UNCHANGED <<now, lastSweep, seen, logs, leads, sent, pc, req, ts, existing,
                   leadTs, evicted>>

\* a catch that deletes the key of the failed event
CaughtForgetsKey(r, at) ==
    /\ pc[r] = at
    /\ pc' = [pc EXCEPT ![r] = "done"]
    /\ trace' = [trace EXCEPT ![r] = Append(@, "caught")]
    /\ existing' = [existing EXCEPT ![r] = 0]
    /\ leadTs' = [leadTs EXCEPT ![r] = 0]
    /\ seen' = [k \in DOMAIN seen \ {makeDedupKey(req[r])} |-> seen[k]]
    /\ UNCHANGED <<now, lastSweep, logs, leads, sent, req, ts, evicted>>

\* an awaited call rejects: the catch of the handler logs it and the handler ends
Caught(r, at) ==
    /\ pc[r] = at
    /\ pc' = [pc EXCEPT ![r] = "done"]
    /\ trace' = [trace EXCEPT ![r] = Append(@, "caught")]
    /\ existing' = [existing EXCEPT ![r] = 0]
    /\ leadTs' = [leadTs EXCEPT ![r] = 0]
    /\ UNCHANGED <<now, lastSweep, seen, logs, leads, sent, req, ts, evicted>>

\* appendRow("conversation_logs!A:J", ...) resolves
LogIncoming(r) ==
    /\ pc[r] = "log"
    /\ logs' = appendRow(logs, IncomingRow(req[r], nowIso(ts[r])))
    /\ pc' = [pc EXCEPT ![r] = AfterLog(req[r])]
    /\ trace' = [trace EXCEPT ![r] = Append(@, "log")]
    /\ UNCHANGED <<now, lastSweep, seen, leads, sent, req, ts, existing, leadTs,
                   evicted>>

LogIncomingFails(r) == Caught(r, "log")

\* upsertLead: findLeadByPhone resolves, ts is taken
FindLead(r) ==
    /\ pc[r] = "find"
    /\ LET found == findLeadByPhone(leads, Phone(req[r]))
       IN /\ existing' = [existing EXCEPT ![r] = found]
          /\ pc' = [pc EXCEPT ![r] = IF found = 0 THEN "append" ELSE "update"]
    /\ leadTs' = [leadTs EXCEPT ![r] = now]
    /\ trace' = [trace EXCEPT ![r] = Append(@, "find")]
    /\ UNCHANGED <<now, lastSweep, seen, logs, leads, sent, req, ts, evicted>>

FindLeadFails(r) == Caught(r, "find")

\* upsertLead: values.append of the new row resolves, action inserted
AppendLead(r) ==
    /\ pc[r] = "append"
    /\ leads' = Append(leads, NewLeadRow(Phone(req[r]), nowIso(leadTs[r]), LastMessage(req[r])))
    /\ pc' = [pc EXCEPT ![r] = AfterLead(req[r])]
    /\ trace' = [trace EXCEPT ![r] = Append(@, "inserted")]
    /\ existing' = [existing EXCEPT ![r] = 0]
    /\ leadTs' = [leadTs EXCEPT ![r] = 0]
    /\ UNCHANGED <<now, lastSweep, seen, logs, sent, req, ts, evicted>>

AppendLeadFails(r) == Caught(r, "append")

\* upsertLead: values.update of the matched row resolves, action updated
UpdateLead(r) ==
    /\ pc[r] = "update"
    /\ leads' = UpdateLeadRow(leads, existing[r], nowIso(leadTs[r]), LastMessage(req[r]))
    /\ pc' = [pc EXCEPT ![r] = AfterLead(req[r])]
    /\ trace' = [trace EXCEPT ![r] = Append(@, "updated")]
    /\ existing' = [existing EXCEPT ![r] = 0]
    /\ leadTs' = [leadTs EXCEPT ![r] = 0]
    /\ UNCHANGED <<now, lastSweep, seen, logs, sent, req, ts, evicted>>

UpdateLeadFails(r) == Caught(r, "update")

\* sendWhatsAppMessage resolves; no outgoing row is written
SendReply(r) ==
    /\ pc[r] = "send"
    /\ sent' = Append(sent, [chatId |-> extractChatId(req[r]), message |-> Reply(req[r])])
    /\ logs' = logOutgoing(logs, req[r], nowIso(now))
    /\ pc' = [pc EXCEPT ![r] = "done"]
    /\ trace' = [trace EXCEPT ![r] = Append(@, "send")]
    /\ UNCHANGED <<now, lastSweep, seen, leads, req, ts, existing, leadTs,
                   evicted>>

SendReplyFails(r) == Caught(r, "send")

\* the interval timer fires cleanupSeen
Sweep ==
    /\ now - lastSweep >= SWEEP_INTERVAL_MS
    /\ lastSweep' = now
    /\ seen' = cleanupSeenMap(seen, now)
    /\ evicted' = [k \in DOMAIN evicted \cup Expired(seen, now) |->
                     (IF k \in DOMAIN evicted THEN evicted[k] ELSE 0)
                     + (IF k \in Expired(seen, now) THEN 1 ELSE 0)]
    /\ UNCHANGED <<now, logs, leads, sent, pc, req, ts, existing, leadTs, trace>>

\* time passes
Tick ==
    /\ now < MaxTicks * TickMs
    /\ now' = now + TickMs
    /\ UNCHANGED <<lastSweep, seen, logs, leads, sent, pc, req, ts, existing, leadTs,
                   trace, evicted>>

Next ==
    \/ \E r \in Requests, p \in Payloads : Receive(r, p)
    \/ \E r \in Requests : LogIncoming(r)
    \/ \E r \in Requests : LogIncomingFails(r)
    \/ \E r \in Requests : FindLead(r)
    \/ \E r \in Requests : FindLeadFails(r)
    \/ \E r \in Requests : AppendLead(r)
    \/ \E r \in Requests : AppendLeadFails(r)
    \/ \E r \in Requests : UpdateLead(r)
    \/ \E r \in Requests : UpdateLeadFails(r)
    \/ \E r \in Requests : SendReply(r)
    \/ \E r \in Requests : SendReplyFails(r)
    \/ Sweep
    \/ Tick

Spec == Init /\ [][Next]_vars

----------------------------------------------------------------------------
(* The handler of one request over request bodies that vary the sources of *)
(* each normalized field one by one: a source is missing, the empty string *)
(* or a string of its own.                                                 *)

S_chat3 == <<51, 51, 51>>
S_sender == <<52, 52, 64, 52, 64, 99>>
S_atOnly == <<64, 99, 46, 117, 115>>
S_t3 == <<116, 51>>
S_t4 == <<116, 52>>
S_t5 == <<116, 53>>
S_OutGoingCall == <<79, 117, 116, 71, 111, 105, 110, 103, 67, 97, 108, 108>>
S_outgoingMessageReceived == <<111, 117, 116, 103, 111, 105, 110, 103, 77, 101, 115, 115, 97, 103, 101, 82, 101, 99, 101, 105, 118, 101, 100>>

\* a property that is missing, empty or set to v
SourceValues(v) == {Undef, Str(S_empty), Str(v)}

\* the four sources of chatId (src/server.js extractChatId)
NormChatIds ==
    {[EmptyPayload EXCEPT !.idMessage = Str(S_idA), !.typeMessage = Str(S_textMessage),
                          !.message = Str(S_hi),
                          !.chatId = a, !.sd_chatId = b, !.md_chatId = c, !.sd_sender = d] :
        a \in SourceValues(S_chat1), b \in SourceValues(S_chat2),
        c \in SourceValues(S_chat3), d \in SourceValues(S_sender)}

\* the three sources of msgType
NormMsgTypes ==
    {[EmptyPayload EXCEPT !.chatId = Str(S_chat1), !.idMessage = Str(S_idA),
                          !.message = Str(S_hi),
                          !.typeMessage = a, !.md_typeMessage = b,
                          !.md_textMessageData = c] :
        a \in SourceValues(S_imageMessage), b \in SourceValues(S_TextMessage),
        c \in {Undef, Obj(<<123, 125>>)}}

\* the five sources of text
NormTexts ==
    {[EmptyPayload EXCEPT !.chatId = Str(S_chat2), !.idMessage = Str(S_idA),
                          !.typeMessage = Str(S_textMessage),
                          !.message = a, !.textMessage = b,
                          !.md_tmd_textMessage = c,
                          !.md_textMessageData =
                              IF c.t = "undef" THEN Undef ELSE Obj(<<123, 125>>),
                          !.md_etmd_text = d, !.md_quoted_textMessage = e] :
        a \in SourceValues(S_hi), b \in SourceValues(S_yo), c \in SourceValues(S_t3),
        d \in SourceValues(S_t4), e \in SourceValues(S_t5)}

\* the notification type and the message type, with and without "outgoing"
NormTags ==
    {[EmptyPayload EXCEPT !.chatId = Str(S_chat1), !.idMessage = Str(S_idB),
                          !.message = m,
                          !.typeWebhook = a, !.eventType = b,
                          !.typeMessage = c, !.md_typeMessage = d] :
        m \in {Undef, Str(S_hi)},
        a \in {Undef, Str(S_empty), Str(S_incomingMessageReceived), Str(S_OutGoingCall)},
        b \in {Undef, Str(S_incomingMessageReceived), Str(S_outgoingMessageReceived)},
        c \in {Undef, Str(S_textMessage), Str(S_outgoingMessageReceived)},
        d \in {Undef, Str(S_OutGoingCall)}}

\* a text message whose chat id has nothing before its "@"
pAtOnly ==
    [EmptyPayload EXCEPT !.chatId = Str(S_atOnly), !.idMessage = Str(S_idB),
                         !.typeMessage = Str(S_textMessage), !.message = Str(S_yo)]

NormPayloads ==
    NormChatIds \cup NormMsgTypes \cup NormTexts \cup NormTags \cup {pEcho, pAtOnly}

NextNorm ==
    \/ \E p \in NormPayloads : Receive(1, p)
    \/ LogIncoming(1)
    \/ LogIncomingFails(1)
    \/ FindLead(1)
    \/ FindLeadFails(1)
    \/ AppendLead(1)
    \/ AppendLeadFails(1)
    \/ UpdateLead(1)
    \/ UpdateLeadFails(1)
    \/ SendReply(1)
    \/ SendReplyFails(1)

SpecNorm == Init /\ [][NextNorm]_vars

----------------------------------------------------------------------------
(* The server started over a leads sheet that holds two rows of one phone *)

S_Dan == <<68, 97, 110>>

\* a second row of the phone of OldLead, further down the sheet
DupLead == <<Str(S_111), Str(S_Dan), Str(S_new), Str(<<48>>), Str(<<48>>), Str(S_yo)>>

DupLeads == <<LeadsHeader, OldLead, DupLead>>

InitDup ==
    /\ now = 0
    /\ lastSweep = 0
    /\ seen = EmptyMap
    /\ logs = << >>
    /\ leads = DupLeads
    /\ sent = << >>
    /\ pc = [r \in Requests |-> "idle"]
    /\ req = [r \in Requests |-> EmptyPayload]
    /\ ts = [r \in Requests |-> 0]
    /\ existing = [r \in Requests |-> 0]
    /\ leadTs = [r \in Requests |-> 0]
    /\ trace = [r \in Requests |-> << >>]
    /\ evicted = EmptyMap

SpecDup == InitDup /\ [][Next]_vars

----------------------------------------------------------------------------
(* Vocabulary of the properties *)

Arrived(r) == pc[r] # "idle"

\* the fingerprint of request r
Key(r) == makeDedupKey(req[r])

\* the handler of r has taken the step
Has(r, step) == \E i \in 1..Len(trace[r]) : trace[r][i] = step

\* how often the handlers of R have taken the step
StepCount(R, step) ==
    Cardinality(UNION {{<<r, i>> : i \in {j \in 1..Len(trace[r]) : trace[r][j] = step}} : r \in R})

\* how often cleanupSeen has deleted key k
Evictions(k) == IF k \in DOMAIN evicted THEN evicted[k] ELSE 0

\* the requests with key k that passed the gate
Passed(k) == {q \in Requests : Arrived(q) /\ Key(q) = k /\ Has(q, "dedup")}

\* the text of the payload is a string that starts with the reply prefix
TextIsEcho(payload) ==
    LET text == extractText(payload)
    IN text.t = "str" /\ Len(text.s) >= Len(REPLY_PREFIX)
       /\ \A i \in 1..Len(REPLY_PREFIX) : text.s[i] = REPLY_PREFIX[i]

\* the first max code units of s
Prefix(s, max) == [i \in 1..(IF Len(s) < max THEN Len(s) ELSE max) |-> s[i]]

----------------------------------------------------------------------------
(* C1 *)

\* C1 (dedup idempotence): a key passes the gate at most once more than it
\* was evicted by the sweep; when the same event arrives twice with no
\* eviction and the pass of a non-echo event with a phone ends without a
\* failure, the two handlers together write one incoming row, do one lead
\* upsert and send at most one reply.  Every row and every send in the
\* stores is a step of some handler.
C1_DedupIdempotence ==
    /\ \A r \in Requests :
          Arrived(r) => Cardinality(Passed(Key(r))) <= 1 + Evictions(Key(r))
    /\ \A r1, r2 \in Requests :
          (/\ r1 # r2 /\ Arrived(r1) /\ Arrived(r2)
           /\ Key(r1) = Key(r2) /\ Evictions(Key(r1)) = 0
           /\ pc[r1] = "done" /\ pc[r2] = "done"
           /\ Has(r1, "dedup") /\ ~Has(r1, "caught") /\ ~Has(r1, "echo")
           /\ Phone(req[r1]) # S_empty)
          => /\ StepCount({r1, r2}, "log") = 1
             /\ StepCount({r1, r2}, "inserted") + StepCount({r1, r2}, "updated") = 1
             /\ StepCount({r1, r2}, "find") = 1
             /\ StepCount({r1, r2}, "send") <= 1
             /\ trace[r2] = <<"ack", "duplicate">>
    /\ Len(logs) = StepCount(Requests, "log")
    /\ Len(sent) = StepCount(Requests, "send")

\* the same text message arrived twice: one handler replied, the other left
\* at the gate
C1_Witness ==
    \E r1, r2 \in Requests :
        /\ r1 # r2 /\ req[r1] = pText /\ req[r2] = pText
        /\ pc[r1] = "done" /\ pc[r2] = "done"
        /\ Has(r1, "send") /\ Has(r2, "duplicate")
        /\ Evictions(Key(r1)) = 0

----------------------------------------------------------------------------
(* C2 *)

\* C2 (lead phone uniqueness): no two rows of the leads sheet after the
\* header have the same phone.
C2_LeadPhoneUnique ==
    \A i, j \in 2..Len(leads) : i # j => JsString(leads[i][1]) # JsString(leads[j][1])

----------------------------------------------------------------------------
(* C3 *)

\* C3 (error containment): no failure raised after the acknowledgment leaves
\* the handler, and a handler that caught a failure has ended.
C3_ErrorContainment ==
    \A r \in Requests :
        /\ pc[r] # "escaped"
        /\ Has(r, "caught") => pc[r] = "done"

----------------------------------------------------------------------------
(* C4 *)

\* C4 (outgoing log after reply), as claimed: a handler that has ended after
\* a successful send has left an outgoing row for its chat in the log.
C4_OutgoingLogged ==
    \A r \in Requests :
        (pc[r] = "done" /\ Has(r, "send"))
        => \E i \in 1..Len(logs) :
              logs[i][4] = Str(S_outgoing) /\ logs[i][3] = extractChatId(req[r])

\* C4, amended: the successful send is the last step of the handler and adds
\* no row; every row of the conversation log is an incoming row, one for
\* each handler that completed log-incoming.
C4_NoOutgoingRow ==
    /\ \A i \in 1..Len(logs) : logs[i][4] = Str(S_incoming)
    /\ Len(logs) = StepCount(Requests, "log")
    /\ \A r \in Requests :
          Has(r, "send") => pc[r] = "done" /\ trace[r][Len(trace[r])] = "send"

\* a reply was sent and its handler has ended
C4_Witness ==
    \E r \in Requests :
        /\ pc[r] = "done" /\ Has(r, "send")
        /\ \E i \in 1..Len(sent) : sent[i].chatId = extractChatId(req[r])

----------------------------------------------------------------------------
(* C5 *)

\* C5 (echo suppression): a request whose text starts with the reply prefix
\* ends at the gate or at the echo check, with no log, lead or send step; no
\* row of the log, no lead written by the handler and no quoted text of a
\* reply starts with the prefix.
C5_EchoSuppressed ==
    /\ \A r \in Requests :
          (Arrived(r) /\ TextIsEcho(req[r]))
          => /\ pc[r] = "done"
             /\ \A i \in 1..Len(trace[r]) : trace[r][i] \in {"ack", "dedup", "echo", "duplicate"}
    /\ \A i \in 1..Len(logs) : ~TextIsEcho([EmptyPayload EXCEPT !.message = logs[i][6]])
    /\ \A i \in 2..Len(leads) : ~TextIsEcho([EmptyPayload EXCEPT !.message = leads[i][6]])
    /\ \A i \in 1..Len(sent) :
          LET quoted == SubSeq(sent[i].message, Len(REPLY_PREFIX) + Len(REPLY_MID) + 1,
                               Len(sent[i].message))
          IN ~TextIsEcho([EmptyPayload EXCEPT !.message = Str(quoted)])

\* the bot's own reply arrived as a new event and was dropped at the echo check
C5_Witness ==
    \E r \in Requests : req[r] = pEcho /\ pc[r] = "done" /\ Has(r, "echo")

----------------------------------------------------------------------------
(* C6 *)

\* C6 (reply gating): a handler is at the send, or has sent, only if the
\* lower-cased msgType contains "text", the text is not empty and the chatId
\* is not empty; every message in the send API comes from such a handler.
C6_ReplyGating ==
    /\ \A r \in Requests :
          (pc[r] = "send" \/ Has(r, "send"))
          => /\ LET mt == ToLowerCase(JsString(extractMsgType(req[r])))
                IN \E i \in 1..Len(mt) :
                      i + 3 <= Len(mt) /\ <<mt[i], mt[i + 1], mt[i + 2], mt[i + 3]>> = S_text
             /\ extractText(req[r]) \notin {Str(S_empty), Undef}
             /\ extractChatId(req[r]) \notin {Str(S_empty), Undef}
    /\ Len(sent) = StepCount(Requests, "send")
    /\ \A r \in Requests : req[r] \in {pImage, pNoText} => ~Has(r, "send") /\ pc[r] # "send"

\* an image with a caption went through the log and the lead, and no reply
\* was sent for it
C6_Witness ==
    \E r \in Requests :
        /\ req[r] = pImage /\ pc[r] = "done"
        /\ Has(r, "inserted") /\ ~Has(r, "send")
        /\ extractText(req[r]) # Str(S_empty)

----------------------------------------------------------------------------
(* C7 *)

\* C7 (acknowledgment first): the first step of every handler that has
\* started is the 200 response, sent once, whatever the handler does next.
C7_AckFirst ==
    \A r \in Requests :
        Arrived(r) => /\ Len(trace[r]) >= 1
                      /\ trace[r][1] = "ack"
                      /\ StepCount({r}, "ack") = 1

\* one request was a duplicate and another failed at an external call: both
\* were acknowledged
C7_Witness ==
    \E r1, r2 \in Requests :
        /\ Has(r1, "duplicate") /\ Has(r2, "caught")
        /\ trace[r1][1] = "ack" /\ trace[r2][1] = "ack"

----------------------------------------------------------------------------
(* C8 *)

\* request r starts in this step while every earlier pass of its key is
\* older than the retention window at the last sweep
ResubmittedAfterExpiry(r) ==
    /\ pc[r] = "idle" /\ pc'[r] # "idle"
    /\ LET prior == Passed(makeDedupKey(req'[r]))
       IN /\ prior # {}
          /\ \A q \in prior : lastSweep - ts[q] > SEEN_TTL_MS

\* request r passed the gate after an earlier pass of the same key
PassedAgain(r) ==
    /\ Has(r, "dedup")
    /\ \E q \in Passed(Key(r)) : q # r /\ ts[q] < ts[r]

\* C8 (re-processing after expiry): a request that arrives when the window
\* has elapsed since the earlier sight of its key, and a sweep has run after
\* that, passes the gate and records its key with the present time; such a
\* request, if it is not an echo and no call fails, is processed in full:
\* incoming row, lead upsert when there is a phone, reply when the reply
\* condition holds.
C8_ReprocessAfterExpiry ==
    /\ [][\A r \in Requests :
            ResubmittedAfterExpiry(r)
            => /\ trace'[r][Len(trace'[r])] # "duplicate"
               /\ makeDedupKey(req'[r]) \in DOMAIN seen'
               /\ seen'[makeDedupKey(req'[r])] = now
               /\ ts'[r] = now]_vars
    /\ [](\A r \in Requests :
            (PassedAgain(r) /\ pc[r] = "done" /\ ~Has(r, "caught") /\ ~Has(r, "echo"))
            => /\ StepCount({r}, "log") = 1
               /\ Phone(req[r]) # S_empty
                  => StepCount({r}, "inserted") + StepCount({r}, "updated") = 1
               /\ (pc[r] = "done" /\ Has(r, "send")) \/ ~ShouldReply(req[r]))

\* the same text message was processed twice, the second time after the
\* sweep had deleted its key
C8_Witness ==
    \E q, r \in Requests :
        /\ q # r /\ req[q] = pText /\ req[r] = pText
        /\ Has(q, "log") /\ Has(r, "log") /\ Has(r, "send")
        /\ ts[r] - ts[q] > SEEN_TTL_MS
        /\ Evictions(Key(q)) = 1
        /\ Len(logs) = 2

----------------------------------------------------------------------------
(* C9 *)

\* C9 (lead field preservation): no step removes a row of the leads sheet or
\* changes phone, name, status or createdAt of a row; a row changes only in
\* the update of an upsert whose match it is, the first row with the phone of
\* that request, and that step adds no row.
C9_LeadFieldsPreserved ==
    [][/\ Len(leads') >= Len(leads)
       /\ \A i \in 1..Len(leads) :
             /\ \A c \in 1..4 : leads'[i][c] = leads[i][c]
             /\ leads'[i] # leads[i]
                => /\ Len(leads') = Len(leads)
                   /\ \A j \in 1..Len(leads) : j # i => leads'[j] = leads[j]
                   /\ \E r \in Requests :
                         /\ pc[r] = "update" /\ pc'[r] # "update"
                         /\ existing[r] = i /\ i > 1
                         /\ JsString(leads[i][1]) = Phone(req[r])
                         /\ \A j \in 2..(i - 1) : JsString(leads[j][1]) # Phone(req[r])]_vars

\* the lead that was edited by hand got a new last message and kept its name
\* and status
C9_Witness ==
    /\ Len(leads) >= 2
    /\ leads[2][2] = Str(S_Dana) /\ leads[2][3] = Str(S_won) /\ leads[2][4] = Str(<<48>>)
    /\ leads[2][6] = Str(S_hi)
    /\ leads[2][5] # Str(<<48>>)

----------------------------------------------------------------------------
(* C10 *)

\* C10 (lead creation): findLeadByPhone answers null exactly when no row
\* after the header has the phone, and it changes no row; the append of an
\* upsert adds one row at the end: the phone, name "", status "new",
\* createdAt = updatedAt = ts of the upsert, lastMessage cut to 500, and is
\* the step "inserted"; the update of an upsert adds no row and is the step
\* "updated".
C10_LeadCreation ==
    [][\A r \in Requests :
          /\ (pc[r] = "find" /\ pc'[r] \in {"append", "update"})
             => /\ leads' = leads
                /\ pc'[r] = "append"
                   <=> \A i \in 2..Len(leads) : JsString(leads[i][1]) # Phone(req[r])
          /\ (pc[r] = "append" /\ pc'[r] # "append" /\ ~Has(r, "caught")')
             => /\ Len(leads') = Len(leads) + 1
                /\ \A i \in 1..Len(leads) : leads'[i] = leads[i]
                /\ LET row == leads'[Len(leads')]
                       msg == LastMessage(req[r])
                   IN /\ row[1] = Str(Phone(req[r]))
                      /\ row[2] = Str(S_empty)
                      /\ row[3] = Str(S_new)
                      /\ row[4] = row[5]
                      /\ row[4] = nowIso(leadTs[r])
                      /\ Len(row[6].s) <= LEAD_MSG_MAX
                      /\ row[6].s = Prefix(msg.s, LEAD_MSG_MAX)
                /\ trace'[r] = Append(trace[r], "inserted")
          /\ (pc[r] = "update" /\ pc'[r] # "update" /\ ~Has(r, "caught")')
             => /\ Len(leads') = Len(leads)
                /\ trace'[r] = Append(trace[r], "updated")]_vars

\* a lead was created for 222 with the caption cut to 500 code units
C10_Witness ==
    \E i \in 2..Len(leads) :
        /\ leads[i][1] = Str(<<50, 50, 50>>)
        /\ leads[i][3] = Str(S_new)
        /\ leads[i][4] = leads[i][5]
        /\ Len(leads[i][6].s) = LEAD_MSG_MAX
        /\ \E r \in Requests : req[r] = pImage /\ Has(r, "inserted")


----------------------------------------------------------------------------
(* C11 *)

\* s contains "outgoing", each letter in either case
ContainsOutgoing(s) ==
    \E i \in 1..(Len(s) - Len(S_outgoing) + 1) :
        \A j \in 1..Len(S_outgoing) :
            s[i + j - 1] = S_outgoing[j] \/ s[i + j - 1] = S_outgoing[j] - 32

RECURSIVE FirstNonEmpty(_, _)
\* the first source that is a string with content, else the default
FirstNonEmpty(sources, default) ==
    IF sources = << >> THEN default
    ELSE IF Head(sources).t = "str" /\ Head(sources).s # << >> THEN Head(sources).s
    ELSE FirstNonEmpty(Tail(sources), default)

\* the notification type of the event: typeWebhook, else eventType
WebhookTag(payload) == FirstNonEmpty(<<payload.typeWebhook, payload.eventType>>, S_empty)

\* the tag with the message type as its further sources
TagWithMsgType(payload) ==
    FirstNonEmpty(<<payload.typeWebhook, payload.eventType, payload.typeMessage,
                    payload.md_typeMessage>>, S_empty)

\* one of the three fromMe flags is true
FlaggedFromMe(payload) ==
    \/ payload.fromMe = Bool(TRUE)
    \/ payload.sd_fromMe = Bool(TRUE)
    \/ payload.md_fromMe = Bool(TRUE)

----------------------------------------------------------------------------
(* C12 *)

ExpectedChatId(payload) ==
    FirstNonEmpty(<<payload.chatId, payload.sd_chatId, payload.md_chatId,
                    payload.sd_sender>>, S_empty)

ExpectedMsgType(payload) ==
    FirstNonEmpty(<<payload.typeMessage, payload.md_typeMessage>>,
                  IF payload.md_textMessageData.t = "obj" THEN S_textMessage ELSE S_unknown)

ExpectedText(payload) ==
    FirstNonEmpty(<<payload.message, payload.textMessage, payload.md_tmd_textMessage,
                    payload.md_etmd_text, payload.md_quoted_textMessage>>, S_empty)

\* ph is the part of s before its first "@", all of s when s has none
BeforeFirstAt(s, ph) ==
    /\ Len(ph) <= Len(s)
    /\ \A i \in 1..Len(ph) : ph[i] = s[i] /\ ph[i] # 64
    /\ Len(ph) = Len(s) \/ s[Len(ph) + 1] = 64

\* C12 (normalization precedence): for a request body whose sources are
\* missing, empty or strings, chatId, msgType and text are the first
\* non-empty source in the declared order, else "", "textMessage" when a
\* text-message-data block exists or "unknown", and ""; phone is the part of
\* chatId before its first "@", empty when chatId is empty; no exception
\* leaves the handler, and the incoming row carries these values.
C12_NormalizationPrecedence ==
    \A r \in Requests :
        Arrived(r) =>
            LET p == req[r]
            IN /\ extractChatId(p) = Str(ExpectedChatId(p))
               /\ extractMsgType(p) = Str(ExpectedMsgType(p))
               /\ extractText(p) = Str(ExpectedText(p))
               /\ BeforeFirstAt(ExpectedChatId(p), Phone(p))
               /\ ExpectedChatId(p) = S_empty => Phone(p) = S_empty
               /\ pc[r] # "escaped"
               /\ \A i \in 1..Len(logs) :
                      /\ logs[i][3] = Str(ExpectedChatId(p))
                      /\ logs[i][2].t = "str"
                      /\ BeforeFirstAt(ExpectedChatId(p), logs[i][2].s)
                      /\ logs[i][5] = Str(ExpectedMsgType(p))
                      /\ ExpectedText(p) # S_empty => logs[i][6] = Str(ExpectedText(p))

\* a body whose direct chatId is empty and whose direct message and alternate
\* text are both set: the sender-block chat id and the direct message are logged
C12_Witness ==
    \E r \in Requests :
        /\ Has(r, "log")
        /\ req[r].chatId = Str(S_empty)
        /\ req[r].sd_chatId = Str(S_chat2)
        /\ req[r].sd_sender = Str(S_sender)
        /\ Len(logs) = 1
        /\ logs[1][3] = Str(S_chat2)
        /\ logs[1][2] = Str(<<50, 50, 50>>)
        /\ logs[1][6] = Str(S_hi)


----------------------------------------------------------------------------
(* C13 *)

\* C13 (conversation log is append-only): every step leaves the rows of the
\* conversation log in place and at most appends rows at its end, so the log
\* of a state is a prefix of the log of every later state.
C13_LogAppendOnly ==
    [][/\ Len(logs') >= Len(logs)
       /\ \A i \in 1..Len(logs) : logs'[i] = logs[i]]_vars

\* two different rows are in the log, one lead was updated and one handler
\* ended on its duplicate or echo exit
C13_Witness ==
    /\ Len(logs) = 2
    /\ logs[1] # logs[2]
    /\ \E r \in Requests : Has(r, "updated")

----------------------------------------------------------------------------
(* C14 *)

\* the position of the step in the handler of r
Pos(r, step) == CHOOSE i \in 1..Len(trace[r]) : trace[r][i] = step

\* when the handler of r has taken step b, it has taken step a before
Before(r, a, b) == Has(r, b) => Has(r, a) /\ Pos(r, a) < Pos(r, b)

\* the handler of r takes the step at most once
AtMostOnce(r, step) == Cardinality({i \in 1..Len(trace[r]) : trace[r][i] = step}) <= 1

\* C14 (pipeline ordering and stop-on-failure): the handler of an event that
\* passed the dedup and echo checks writes the incoming row before it reads
\* the leads, ends the upsert before it sends, and sends only after the
\* upsert when the phone is not empty; a failed call is the last step of the
\* handler (after a failed log no lead read or write and no send, after a
\* failed upsert no send), and no step is taken twice.
C14_PipelineOrder ==
    /\ \A r \in Requests :
        /\ Before(r, "dedup", "log")
        /\ Before(r, "log", "find")
        /\ Before(r, "find", "inserted")
        /\ Before(r, "find", "updated")
        /\ Before(r, "log", "send")
        /\ Has(r, "send") /\ Has(r, "find") =>
               \/ Has(r, "inserted") /\ Pos(r, "inserted") < Pos(r, "send")
               \/ Has(r, "updated") /\ Pos(r, "updated") < Pos(r, "send")
        /\ ~(Has(r, "inserted") /\ Has(r, "updated"))
        /\ Has(r, "log") => ~Has(r, "echo") /\ ~Has(r, "duplicate")
        /\ Has(r, "caught") =>
               /\ Pos(r, "caught") = Len(trace[r])
               /\ pc[r] = "done"
        /\ \A step \in {"log", "find", "inserted", "updated", "send", "caught"} :
               AtMostOnce(r, step)
    /\ Len(logs) = StepCount(Requests, "log")
    /\ Len(sent) = StepCount(Requests, "send")

\* the read of the leads failed for an event that would have been answered:
\* the handler ended there and nothing was sent
C14_Witness ==
    \E r \in Requests :
        /\ trace[r] = <<"ack", "dedup", "log", "find", "caught">>
        /\ ShouldReply(req[r])
        /\ pc[r] = "done"
        /\ Len(sent) = 0
        /\ Len(logs) = 1


----------------------------------------------------------------------------
(* C15 *)

\* C15 (lookup has no expiry check): an event whose key is in the map when
\* it arrives, whatever the age of the entry, is acknowledged and dropped as
\* a duplicate: the step changes neither the map nor the sheets nor the
\* sends, and the handler takes no further step.
C15_LookupIgnoresAge ==
    /\ [][\A r \in Requests :
             pc[r] = "idle" /\ pc'[r] # "idle" /\ makeDedupKey(req'[r]) \in DOMAIN seen
             => /\ trace'[r] = <<"ack", "duplicate">>
                /\ pc'[r] = "done"
                /\ UNCHANGED <<seen, logs, leads, sent>>]_vars
    /\ [](\A r \in Requests :
             Has(r, "duplicate") => trace[r] = <<"ack", "duplicate">> /\ pc[r] = "done")

\* an event came again more than the retention window after its key was
\* stored, before a sweep, and was dropped
C15_Witness ==
    \E r \in Requests :
        /\ trace[r] = <<"ack", "duplicate">>
        /\ Key(r) \in DOMAIN seen
        /\ ts[r] - seen[Key(r)] > SEEN_TTL_MS
        /\ Evictions(Key(r)) = 0

----------------------------------------------------------------------------
(* C16 *)

\* C16 (sweep exactness): a run of cleanupSeen at time now leaves exactly the
\* entries whose age now - firstSeen is at most the retention window, each
\* with its timestamp, and adds none.
C16_SweepExact ==
    [][lastSweep' # lastSweep
       => /\ DOMAIN seen' = {k \in DOMAIN seen : now - seen[k] <= SEEN_TTL_MS}
          /\ \A k \in DOMAIN seen' : seen'[k] = seen[k]]_vars

\* the sweep that has just run kept an entry of exactly the window's age and
\* deleted an older one
C16_Witness ==
    /\ lastSweep = now
    /\ \E k \in DOMAIN seen : lastSweep - seen[k] = SEEN_TTL_MS
    /\ \E r \in Requests :
          /\ Has(r, "dedup")
          /\ Key(r) \notin DOMAIN seen
          /\ Evictions(Key(r)) = 1
          /\ lastSweep - ts[r] > SEEN_TTL_MS

----------------------------------------------------------------------------
(* C17 *)

\* the sheet rows after the header that hold the phone
RowsOf(rows, phone) == {i \in 2..Len(rows) : JsString(rows[i][1]) = phone}

\* C17 (first-match tie-break): when the read of an upsert finds several
\* rows with its phone, the upsert takes the row with the lowest index and
\* appends none; its write changes updatedAt and lastMessage of that row
\* only; no step changes a row that has an earlier row with the same phone.
C17_FirstMatch ==
    /\ [][/\ \A i \in 2..Len(leads) :
                (\E j \in 2..(i - 1) : leads[j][1] = leads[i][1]) => leads'[i] = leads[i]
          /\ \A r \in Requests :
                LET hits == RowsOf(leads, Phone(req[r]))
                IN Cardinality(hits) > 1 =>
                     /\ (pc[r] = "find" /\ pc'[r] \in {"append", "update"})
                        => /\ pc'[r] = "update"
                           /\ existing'[r] \in hits
                           /\ \A j \in hits : existing'[r] <= j
                     /\ (pc[r] = "update" /\ pc'[r] # "update" /\ ~Has(r, "caught")')
                        => /\ Len(leads') = Len(leads)
                           /\ \A i \in hits :
                                 IF \A j \in hits : i <= j
                                 THEN /\ leads'[i][5] = nowIso(leadTs[r])
                                      /\ leads'[i][6].s
                                           = Prefix(LastMessage(req[r]).s, LEAD_MSG_MAX)
                                 ELSE leads'[i] = leads[i]]_vars
    /\ [](Len(leads) >= 3 /\ leads[3] = DupLead)

\* an upsert for the phone with two rows wrote the upper row; the lower row
\* is as it was and no row was added
C17_Witness ==
    /\ \E r \in Requests : Has(r, "updated") /\ Phone(req[r]) = S_111
    /\ Cardinality(RowsOf(leads, S_111)) = 2
    /\ leads[2][6] = Str(S_hi)
    /\ leads[2][2] = Str(S_Dana)
    /\ leads[3] = DupLead


----------------------------------------------------------------------------
(* C18 *)

\* the first pass of r ended in the echo exit, in the exception of the echo
\* check or in a failed call
EndedEarly(r) == Has(r, "echo") \/ Has(r, "throw") \/ Has(r, "caught")

\* C18 (fingerprint recorded before processing, never rolled back): the key
\* is stored in the step that acknowledges the event, before the echo check
\* and before every call; only a sweep removes a key, so the key of an event
\* that passed the gate is in the map until the sweep deletes it; an event
\* that arrives after one with its key ended as an echo or in a failure, with
\* no eviction in between, is dropped as a duplicate without a call.
C18_KeyNotRolledBack ==
    /\ [][\A k \in DOMAIN seen : k \in DOMAIN seen' \/ lastSweep' # lastSweep]_vars
    /\ [](\A r \in Requests :
             /\ Has(r, "dedup") =>
                    /\ trace[r][2] = "dedup"
                    /\ Key(r) \in DOMAIN seen \/ Evictions(Key(r)) > 0
             /\ \A q \in Requests :
                    /\ r < q /\ Arrived(q) /\ Key(q) = Key(r)
                    /\ Has(r, "dedup") /\ EndedEarly(r)
                    /\ Evictions(Key(r)) = 0
                    => /\ trace[q] = <<"ack", "duplicate">>
                       /\ pc[q] = "done")

\* the log of an event failed; the event came again later and was dropped,
\* and its row is still missing
C18_Witness ==
    \E r, q \in Requests :
        /\ r < q
        /\ Key(q) = Key(r)
        /\ trace[r] = <<"ack", "dedup", "caught">>
        /\ trace[q] = <<"ack", "duplicate">>
        /\ ts[q] > ts[r]
        /\ Key(r) \in DOMAIN seen
        /\ Len(logs) = 0

----------------------------------------------------------------------------
(* C19 *)

\* C19 (first-seen timestamp is not refreshed): an entry of the map keeps
\* its timestamp in every step and leaves the map only in a sweep that finds
\* it older than the retention window; a duplicate leaves the map as it is;
\* the timestamp of an entry is the arrival time of an event that passed the
\* gate with that key, and after a sweep no entry is older at the time of
\* that sweep than the window, however often the event came again.
C19_TimestampNotRefreshed ==
    /\ [][/\ \A k \in DOMAIN seen :
                \/ k \in DOMAIN seen' /\ seen'[k] = seen[k]
                \/ /\ lastSweep' # lastSweep
                   /\ now - seen[k] > SEEN_TTL_MS
                   /\ k \notin DOMAIN seen'
          /\ \A r \in Requests :
                pc[r] = "idle" /\ Has(r, "duplicate")' => seen' = seen]_vars
    /\ [](\A k \in DOMAIN seen :
             /\ \E r \in Passed(k) : ts[r] = seen[k]
             /\ lastSweep - seen[k] <= SEEN_TTL_MS)

\* an event came again one window after its first arrival; the sweep one
\* window later deleted its key, which a refreshed timestamp would have kept
C19_Witness ==
    \E r, q \in Requests :
        /\ Key(q) = Key(r)
        /\ Has(r, "dedup")
        /\ trace[q] = <<"ack", "duplicate">>
        /\ ts[q] - ts[r] = SEEN_TTL_MS
        /\ lastSweep - ts[q] = SEEN_TTL_MS
        /\ Key(r) \notin DOMAIN seen
        /\ Evictions(Key(r)) = 1

----------------------------------------------------------------------------
(* C20 *)

\* the handler of r has read or written the leads sheet
TouchedLeads(r) == Has(r, "find") \/ Has(r, "inserted") \/ Has(r, "updated")

\* C20 as stated: an event with an empty phone gets no lead read or write
\* and no send.
C20_NoSendForEmptyPhone ==
    \A r \in Requests :
        Arrived(r) /\ Phone(req[r]) = S_empty => ~TouchedLeads(r) /\ ~Has(r, "send")

\* C20 (no lead for an empty phone): the handler of an event with an empty
\* phone that passed the checks writes the incoming row and neither reads nor
\* writes the leads sheet; it sends nothing when chatId is empty, and when
\* chatId is not empty (it starts with "@") it goes on to the reply gate and
\* sends for a text-type event with text; no row after the header of the
\* leads sheet has an empty phone.
C20_NoLeadForEmptyPhone ==
    /\ \A r \in Requests :
          Arrived(r) /\ Phone(req[r]) = S_empty =>
              /\ ~TouchedLeads(r)
              /\ ExpectedChatId(req[r]) = S_empty => ~Has(r, "send")
              /\ pc[r] = "done" /\ Has(r, "dedup") /\ ~EndedEarly(r) =>
                     /\ Has(r, "log")
                     /\ \E i \in 1..Len(logs) : logs[i][2] = Str(S_empty)
                     /\ Has(r, "send") <=>
                            /\ ExpectedChatId(req[r]) # S_empty
                            /\ ExpectedText(req[r]) # S_empty
                            /\ \E i \in 1..(Len(ExpectedMsgType(req[r])) - 3) :
                                  /\ ExpectedMsgType(req[r])[i] \in {116, 84}
                                  /\ ExpectedMsgType(req[r])[i + 1] \in {101, 69}
                                  /\ ExpectedMsgType(req[r])[i + 2] \in {120, 88}
                                  /\ ExpectedMsgType(req[r])[i + 3] \in {116, 84}
    /\ \A i \in 2..Len(leads) : JsString(leads[i][1]) # S_empty

\* the event of chat "@c.us" was logged with an empty phone and answered,
\* and the leads sheet was not read
C20_Witness ==
    \E r \in Requests :
        /\ req[r].chatId = Str(S_atOnly)
        /\ Phone(req[r]) = S_empty
        /\ trace[r] = <<"ack", "dedup", "log", "send">>
        /\ Len(logs) = 1
        /\ logs[1][2] = Str(S_empty)
        /\ Len(sent) = 1

====
